---- MODULE Spec2Model ----
(***************************************************************************)
(* A model of the nes_level 6502 core: the memory bus (src/mem.rs), the    *)
(* cartridge loader and PRG (src/rom.rs) and the CPU's reset and           *)
(* fetch-decode-execute cycle (src/cpu.rs).                                *)
(*                                                                         *)
(* Encodings.  A byte array is kept as the function of its cells that      *)
(* differ from the array's background byte: RAM (zero-filled by RAM::new)  *)
(* as the function of its non-zero cells, the PRG vector as a length, a    *)
(* background byte and the cells that differ from it, an image file the    *)
(* same way.  A Rust panic is the                                          *)
(* value of `halt`: the process stops and no operation runs after it.      *)
(* Integer overflow panics in a build with overflow checks and wraps in a  *)
(* build without: `overflow_checks` is the build, chosen once.             *)
(***************************************************************************)
EXTENDS Integers, Sequences, FiniteSets, TLC

VARIABLES
    regs,             \* CPU.regs: a, x, y, s, flags, pc
    memory,           \* CPU.memory: ram (RAM.data), rom (header, prg)
    halt,             \* "none", or the panic that ended the process
    overflow_checks,  \* the build: TRUE panics on integer overflow, FALSE wraps
    driver,           \* bus accesses the driver may still issue itself
    last,             \* the last operation, its arguments, result and pre-state
    file              \* the image file CPU::new is given

vars == <<regs, memory, halt, overflow_checks, driver, last, file>>

----------------------------------------------------------------------------
\* Bounds of the model.

\* The largest PRG bank count (header byte 4) among the cartridges drawn.
MaxBanks == 3

\* The number of loadb/storeb calls the driver issues itself on the bus.
MaxBusOps == 2

\* The number of reset() calls the driver makes where it drives the bus itself.
MaxResets == 1

----------------------------------------------------------------------------
\* Constants of the program.

CARRY_FLAG == 1
ZERO_FLAG == 2
OVERFLOW_FLAG == 64
NEG_FLAG == 128
RESET_VECTOR == \hFFFC
RAM_SIZE == \h800
PRG_BANK_SIZE == 16384

----------------------------------------------------------------------------
\* u8/u16 arithmetic.

RECURSIVE BitAnd(_, _)
BitAnd(a, b) ==
    IF a = 0 \/ b = 0 THEN 0
    ELSE (a % 2) * (b % 2) + 2 * BitAnd(a \div 2, b \div 2)

RECURSIVE BitOr(_, _)
BitOr(a, b) ==
    IF a = 0 THEN b
    ELSE IF b = 0 THEN a
    ELSE (IF a % 2 = 1 \/ b % 2 = 1 THEN 1 ELSE 0) + 2 * BitOr(a \div 2, b \div 2)

RECURSIVE BitXor(_, _)
BitXor(a, b) ==
    IF a = 0 THEN b
    ELSE IF b = 0 THEN a
    ELSE (IF a % 2 # b % 2 THEN 1 ELSE 0) + 2 * BitXor(a \div 2, b \div 2)

\* !v on a u8
BitNot8(v) == 255 - v

\* F applied to the value of v: v is evaluated once, then F goes on with it.
Bind(v, F(_)) == F(v)

\* The result of an expression that may panic: halt is "none" and val the
\* value, or halt is the panic.
Ok(v) == [halt |-> "none", val |-> v]
Fail(why) == [halt |-> why, val |-> 0]

\* a + b on u16: a panic with overflow checks, modulo 2^16 without.
Add16(a, b) ==
    IF a + b > 65535
    THEN IF overflow_checks THEN Fail("Overflow") ELSE Ok((a + b) % 65536)
    ELSE Ok(a + b)

\* a - b on u16: a panic with overflow checks, modulo 2^16 without.
Sub16(a, b) ==
    IF a - b < 0
    THEN IF overflow_checks THEN Fail("Overflow") ELSE Ok((a - b) % 65536)
    ELSE Ok(a - b)

----------------------------------------------------------------------------
\* RAM (src/mem.rs).

\* RAM::new: data = [0; 0x800], no cell differs from zero.
RAM_new == << >>

RamCell(ram, i) == IF i \in DOMAIN ram THEN ram[i] ELSE 0

\* RAM::loadb: self.data[addr as usize], bounds-checked.
RAM_loadb(ram, addr) ==
    IF addr < RAM_SIZE THEN Ok(RamCell(ram, addr)) ELSE Fail("IndexOutOfBounds")

\* RAM::storeb: self.data[addr as usize] = val, bounds-checked.
RAM_storeb(ram, addr, val) ==
    IF addr < RAM_SIZE
    THEN [halt |-> "none",
          ram |-> IF val = 0
                  THEN [i \in DOMAIN ram \ {addr} |-> ram[i]]
                  ELSE [i \in DOMAIN ram \cup {addr} |->
                            IF i = addr THEN val ELSE ram[i]]]
    ELSE [halt |-> "IndexOutOfBounds", ram |-> ram]

----------------------------------------------------------------------------
\* Cartridge PRG (src/rom.rs).

PrgLen(rom) == rom.prg.len

PrgAt(rom, i) == IF i \in DOMAIN rom.prg.cells THEN rom.prg.cells[i] ELSE rom.prg.fill

\* A ROM::loadb without the single-bank mirror, to compare against.
ROM_loadb_NoMirror(rom, addr) ==
    Bind(addr - \h8000, LAMBDA idx :
        IF idx >= 0 /\ idx < PrgLen(rom)
        THEN Ok(PrgAt(rom, idx))
        ELSE Fail("IndexOutOfBounds"))

\* ROM::loadb: the single-bank mirror, then self.prg[(addr as usize) - 0x8000].
ROM_loadb(rom, addr) ==
    LET a1 == IF rom.header.size_prg = 1 /\ addr >= \hC000
              THEN addr - \h4000 ELSE addr
        idx == a1 - \h8000
    IN  IF idx >= 0 /\ idx < PrgLen(rom)
        THEN Ok(PrgAt(rom, idx))
        ELSE Fail("IndexOutOfBounds")

\* ROM::storeb: panic!("You cannot write to PRG").
ROM_storeb(rom, addr, val) == [halt |-> "WriteToPRG", rom |-> rom]

----------------------------------------------------------------------------
\* The cartridge loader (src/rom.rs).  A file is its length, and its bytes
\* by offset: cells, and fill at every other offset.

INES_HEADER_MAGIC == \h1A53454E

CHR_BANK_SIZE == 8192

HEADER_SIZE == 16

TRAINER_SIZE == 512

FileAt(f, i) == IF i \in DOMAIN f.cells THEN f.cells[i] ELSE f.fill

\* f.read_exact(&mut buf[0..len]).unwrap() at offset pos: the bytes, or the
\* panic of unwrap when the file ends before the buffer is full.
read_exact(f, pos, len) ==
    IF len > 0 /\ pos + len > f.len
    THEN Fail("UnexpectedEof")
    ELSE Ok([len |-> len,
             fill |-> f.fill,
             cells |-> [i \in {o - pos : o \in {o \in DOMAIN f.cells :
                                                  o >= pos /\ o < pos + len}}
                           |-> f.cells[i + pos]]])

\* An INESHeader::from_array that takes the magic for the big-endian word
\* of the first four bytes, to compare against.
INESHeader_from_array_BigEndian(a) ==
    Bind([magic |-> a[4] + 256 * a[3] + 65536 * a[2] + 16777216 * a[1],
          size_prg |-> a[5], size_chr |-> a[6], flags_6 |-> a[7],
          flags_7 |-> a[8], size_prg_ram |-> a[9], flags_9 |-> a[10],
          flags_10 |-> a[11], zero |-> SubSeq(a, 12, 16)],
         LAMBDA header :
            IF header.magic = INES_HEADER_MAGIC
            THEN Ok(header) ELSE Fail("AssertMagic"))

\* INESHeader::from_array: the sixteen bytes copied over the struct, its
\* fields in the order they are declared and magic the little-endian u32
\* of the first four bytes; then assert!(header.magic == INES_HEADER_MAGIC).
INESHeader_from_array(a) ==
    Bind([magic |-> a[1] + 256 * a[2] + 65536 * a[3] + 16777216 * a[4],
          size_prg |-> a[5], size_chr |-> a[6], flags_6 |-> a[7],
          flags_7 |-> a[8], size_prg_ram |-> a[9], flags_9 |-> a[10],
          flags_10 |-> a[11], zero |-> SubSeq(a, 12, 16)],
         LAMBDA header :
            IF header.magic = INES_HEADER_MAGIC
            THEN Ok(header) ELSE Fail("AssertMagic"))

\* INESHeader::has_trainer: self.flags_6 & (1 << 2) != 0
has_trainer(header) == BitAnd(header.flags_6, 4) # 0

\* ROM::from_file, from the sixteen header bytes on: the header, the seek
\* past a trainer, the PRG and the CHR.
ROM_from_file(f) ==
    Bind(read_exact(f, 0, HEADER_SIZE), LAMBDA h :
        IF h.halt # "none" THEN h
        ELSE Bind(INESHeader_from_array([i \in 1..HEADER_SIZE |-> FileAt(f, i - 1)]),
                  LAMBDA hd :
            IF hd.halt # "none" THEN hd
            ELSE Bind(HEADER_SIZE + (IF has_trainer(hd.val) THEN TRAINER_SIZE ELSE 0),
                      LAMBDA pos :
                Bind(read_exact(f, pos, hd.val.size_prg * PRG_BANK_SIZE), LAMBDA prg :
                    IF prg.halt # "none" THEN prg
                    ELSE Bind(read_exact(f, pos + prg.val.len,
                                         hd.val.size_chr * CHR_BANK_SIZE),
                              LAMBDA chr :
                        IF chr.halt # "none" THEN chr
                        ELSE Ok([header |-> hd.val,
                                 prg |-> prg.val,
                                 chr |-> chr.val]))))))

----------------------------------------------------------------------------
\* The memory bus (src/mem.rs).

\* Memory::from_rom
Memory_from_rom(rom) == [ram |-> RAM_new, rom |-> rom]

\* The branch of Memory::loadb's if-chain that takes addr.
LoadRegion(addr) ==
    IF addr < \h2000 THEN "ram"
    ELSE IF addr >= \h2000 /\ addr < \h4000 THEN "ppu"
    ELSE IF addr >= \h4000 /\ addr < \h4020 THEN "apu"
    ELSE IF addr >= \h4020 /\ addr < \h6000 THEN "expansion"
    ELSE IF addr >= \h6000 /\ addr < \h8000 THEN "sram"
    ELSE "rom"

\* The branch of Memory::storeb's if-chain that takes addr.
StoreRegion(addr) ==
    IF addr < \h2000 THEN "ram"
    ELSE IF addr >= \h2000 /\ addr < \h4000 THEN "ppu"
    ELSE IF addr >= \h4000 /\ addr < \h4020 THEN "apu"
    ELSE IF addr >= \h4020 /\ addr < \h6000 THEN "expansion"
    ELSE IF addr >= \h6000 /\ addr < \h8000 THEN "sram"
    ELSE "rom"

\* A Memory::loadb whose cartridge-RAM branch reads the console RAM, to
\* compare against.
Memory_loadb_SramFromRam(m, addr) ==
    CASE LoadRegion(addr) \in {"ram", "sram"} ->
            RAM_loadb(m.ram, BitAnd(addr, \h7ff))
      [] LoadRegion(addr) \in {"ppu", "apu", "expansion"} -> Ok(0)
      [] OTHER -> ROM_loadb(m.rom, addr)

\* Memory::loadb
Memory_loadb(m, addr) ==
    CASE LoadRegion(addr) = "ram" -> RAM_loadb(m.ram, BitAnd(addr, \h7ff))
      [] LoadRegion(addr) = "ppu" -> Ok(0)
      [] LoadRegion(addr) = "apu" -> Ok(0)
      [] LoadRegion(addr) = "expansion" -> Ok(0)
      [] LoadRegion(addr) = "sram" -> Ok(0)
      [] OTHER -> ROM_loadb(m.rom, addr)

\* A Memory::storeb with the mask 0x3ff in place of 0x7ff, to compare
\* against.
Memory_storeb_Mask3ff(m, addr, val) ==
    CASE StoreRegion(addr) = "ram" ->
            Bind(RAM_storeb(m.ram, BitAnd(addr, \h3ff), val), LAMBDA r :
                [halt |-> r.halt, memory |-> [m EXCEPT !.ram = r.ram]])
      [] OTHER -> [halt |-> "none", memory |-> m]

\* A Memory::storeb whose last branch calls rom.storeb, to compare against.
Memory_storeb_CallsRom(m, addr, val) ==
    CASE StoreRegion(addr) = "ram" ->
            Bind(RAM_storeb(m.ram, BitAnd(addr, \h7ff), val), LAMBDA r :
                [halt |-> r.halt, memory |-> [m EXCEPT !.ram = r.ram]])
      [] StoreRegion(addr) = "rom" ->
            Bind(ROM_storeb(m.rom, addr, val), LAMBDA r :
                [halt |-> r.halt, memory |-> [m EXCEPT !.rom = r.rom]])
      [] OTHER -> [halt |-> "none", memory |-> m]

\* Memory::storeb: the RAM branch stores, every other branch is empty (the
\* call of rom.storeb is commented out).
Memory_storeb(m, addr, val) ==
    CASE StoreRegion(addr) = "ram" ->
            Bind(RAM_storeb(m.ram, BitAnd(addr, \h7ff), val), LAMBDA r :
                [halt |-> r.halt, memory |-> [m EXCEPT !.ram = r.ram]])
      [] OTHER -> [halt |-> "none", memory |-> m]

\* Addressable::loadw: loadb(addr) | (loadb(addr + 1) << 8), the operands
\* evaluated from left to right.
Addressable_loadw(m, addr) ==
    Bind(Memory_loadb(m, addr), LAMBDA lo :
        IF lo.halt # "none" THEN lo
        ELSE Bind(Add16(addr, 1), LAMBDA a1 :
            IF a1.halt # "none" THEN a1
            ELSE Bind(Memory_loadb(m, a1.val), LAMBDA hi :
                IF hi.halt # "none" THEN hi
                ELSE Ok(BitOr(lo.val, hi.val * 256)))))

----------------------------------------------------------------------------
\* The CPU (src/cpu.rs).  An operation of the CPU takes the CPU value
\* c = [regs, memory, halt, acc] and gives the CPU value after it; once
\* c.halt is a panic, the rest of the operation does not run.  c.acc lists
\* the operand accesses the addressing modes made on the bus in the
\* instruction, in order, the one that panicked included.

\* Registers::new (Default): every register zero.
Registers_new == [a |-> 0, x |-> 0, y |-> 0, s |-> 0, flags |-> 0, pc |-> 0]

Halted(c) == c.halt # "none"

Panic(c, why) == [c EXCEPT !.halt = why]

\* An addressing mode's load: the CPU after it and the operand.
Val(c, v) == [c |-> c, val |-> v]

\* self.regs.pc += n
AdvancePc(c, n) ==
    Bind(Add16(c.regs.pc, n), LAMBDA r :
        IF Halted(c) THEN c
        ELSE IF r.halt # "none" THEN Panic(c, r.halt)
        ELSE [c EXCEPT !.regs.pc = r.val])

\* CPU::loadb_move: read a byte at the PC and increment it.
loadb_move(c) ==
    Bind(Memory_loadb(c.memory, c.regs.pc), LAMBDA r :
        IF Halted(c) THEN Val(c, 0)
        ELSE IF r.halt # "none" THEN Val(Panic(c, r.halt), 0)
        ELSE Val(AdvancePc(c, 1), r.val))

\* CPU::loadw_move: read a word at the PC and increment it by 2.
loadw_move(c) ==
    Bind(Addressable_loadw(c.memory, c.regs.pc), LAMBDA r :
        IF Halted(c) THEN Val(c, 0)
        ELSE IF r.halt # "none" THEN Val(Panic(c, r.halt), 0)
        ELSE Val(AdvancePc(c, 2), r.val))

\* CPU::get_flag: (self.regs.flags & flag == 1)
get_flag(c, flag) == BitAnd(c.regs.flags, flag) = 1

\* CPU::set_flag
set_flag(c, flag, value) ==
    IF value
    THEN [c EXCEPT !.regs.flags = BitOr(c.regs.flags, flag)]
    ELSE [c EXCEPT !.regs.flags = BitAnd(c.regs.flags, BitNot8(flag))]

\* cpu.memory.loadb(cpu.regs.pc) as u16: the operand byte read in place,
\* the PC left where it is.
BusPeek(c, addr) ==
    Bind(Memory_loadb(c.memory, addr), LAMBDA r :
        IF Halted(c) THEN Val(c, 0)
        ELSE IF r.halt # "none" THEN Val(Panic(c, r.halt), 0)
        ELSE Val(c, r.val))

\* cpu.memory.loadb(addr) of the operand, from an addressing mode's load.
BusLoad(c, addr) ==
    Bind(Memory_loadb(c.memory, addr), LAMBDA r :
        IF Halted(c) THEN Val(c, 0)
        ELSE Val([c EXCEPT !.halt = r.halt,
                           !.acc = Append(@, [kind |-> "load", addr |-> addr])],
                 r.val))

\* cpu.memory.storeb(addr, val) of the operand, from an addressing mode's
\* store.
BusStore(c, addr, val) ==
    Bind(Memory_storeb(c.memory, addr, val), LAMBDA r :
        IF Halted(c) THEN c
        ELSE [c EXCEPT !.halt = r.halt,
                       !.memory = r.memory,
                       !.acc = Append(@, [kind |-> "store", addr |-> addr])])

\* addr += index (u16), then the bus load.
IndexedLoad(c, base, index) ==
    Bind(Add16(base, index), LAMBDA e :
        IF Halted(c) THEN Val(c, 0)
        ELSE IF e.halt # "none" THEN Val(Panic(c, e.halt), 0)
        ELSE BusLoad(c, e.val))

\* addr += index (u16), then the bus store.
IndexedStore(c, base, index, val) ==
    Bind(Add16(base, index), LAMBDA e :
        IF Halted(c) THEN c
        ELSE IF e.halt # "none" THEN Panic(c, e.halt)
        ELSE BusStore(c, e.val, val))

AccumulatorAddressingMode_load(c) == Val(c, c.regs.a)
AccumulatorAddressingMode_store(c, val) ==
    IF Halted(c) THEN c ELSE [c EXCEPT !.regs.a = val]

ImmediateAddressingMode_load(c) == loadb_move(c)
ImmediateAddressingMode_store(c, val) ==
    IF Halted(c) THEN c ELSE Panic(c, "ImmediateStore")

AbsoluteAddressingMode_load(c) ==
    Bind(loadw_move(c), LAMBDA w : BusLoad(w.c, w.val))
AbsoluteAddressingMode_store(c, val) ==
    Bind(loadw_move(c), LAMBDA w : BusStore(w.c, w.val, val))

\* An AbsoluteWB load that takes the operand word with loadw_move, to
\* compare against.
AbsoluteWBAddressingMode_load_Moves(c) ==
    Bind(loadw_move(c), LAMBDA w : BusLoad(w.c, w.val))

AbsoluteWBAddressingMode_load(c) ==
    Bind(BusPeek(c, c.regs.pc), LAMBDA b : BusLoad(b.c, b.val))
AbsoluteWBAddressingMode_store(c, val) ==
    Bind(loadw_move(c), LAMBDA w : BusStore(w.c, w.val, val))

AbsoluteXAddressingMode_load(c) ==
    Bind(loadw_move(c), LAMBDA w : IndexedLoad(w.c, w.val, w.c.regs.x))
AbsoluteXAddressingMode_store(c, val) ==
    Bind(loadw_move(c), LAMBDA w : IndexedStore(w.c, w.val, w.c.regs.x, val))

AbsoluteXWBAddressingMode_load(c) ==
    Bind(BusPeek(c, c.regs.pc), LAMBDA b : IndexedLoad(b.c, b.val, b.c.regs.x))
AbsoluteXWBAddressingMode_store(c, val) ==
    Bind(loadw_move(c), LAMBDA w : IndexedStore(w.c, w.val, w.c.regs.x, val))

AbsoluteYAddressingMode_load(c) ==
    Bind(loadw_move(c), LAMBDA w : IndexedLoad(w.c, w.val, w.c.regs.y))
AbsoluteYAddressingMode_store(c, val) ==
    Bind(loadw_move(c), LAMBDA w : IndexedStore(w.c, w.val, w.c.regs.y, val))

ZeroPageAddressingMode_load(c) ==
    Bind(loadb_move(c), LAMBDA b : BusLoad(b.c, b.val))
ZeroPageAddressingMode_store(c, val) ==
    Bind(loadb_move(c), LAMBDA b : BusStore(b.c, b.val, val))

ZeroPageWBAddressingMode_load(c) ==
    Bind(BusPeek(c, c.regs.pc), LAMBDA b : BusLoad(b.c, b.val))
ZeroPageWBAddressingMode_store(c, val) ==
    Bind(loadb_move(c), LAMBDA b : BusStore(b.c, b.val, val))

ZeroPageXAddressingMode_load(c) ==
    Bind(loadb_move(c), LAMBDA b : IndexedLoad(b.c, b.val, b.c.regs.x))
ZeroPageXAddressingMode_store(c, val) ==
    Bind(loadb_move(c), LAMBDA b : IndexedStore(b.c, b.val, b.c.regs.x, val))

ZeroPageXWBAddressingMode_load(c) ==
    Bind(BusPeek(c, c.regs.pc), LAMBDA b : IndexedLoad(b.c, b.val, b.c.regs.x))
ZeroPageXWBAddressingMode_store(c, val) ==
    Bind(loadb_move(c), LAMBDA b : IndexedStore(b.c, b.val, b.c.regs.x, val))

ZeroPageYAddressingMode_load(c) ==
    Bind(loadb_move(c), LAMBDA b : IndexedLoad(b.c, b.val, b.c.regs.y))
ZeroPageYAddressingMode_store(c, val) ==
    Bind(loadb_move(c), LAMBDA b : IndexedStore(b.c, b.val, b.c.regs.y, val))

\* AM::load for the addressing mode am.
AM_load(am, c) ==
    CASE am = "Accumulator" -> AccumulatorAddressingMode_load(c)
      [] am = "Immediate" -> ImmediateAddressingMode_load(c)
      [] am = "Absolute" -> AbsoluteAddressingMode_load(c)
      [] am = "AbsoluteWB" -> AbsoluteWBAddressingMode_load(c)
      [] am = "AbsoluteX" -> AbsoluteXAddressingMode_load(c)
      [] am = "AbsoluteXWB" -> AbsoluteXWBAddressingMode_load(c)
      [] am = "AbsoluteY" -> AbsoluteYAddressingMode_load(c)
      [] am = "ZeroPage" -> ZeroPageAddressingMode_load(c)
      [] am = "ZeroPageWB" -> ZeroPageWBAddressingMode_load(c)
      [] am = "ZeroPageX" -> ZeroPageXAddressingMode_load(c)
      [] am = "ZeroPageXWB" -> ZeroPageXWBAddressingMode_load(c)
      [] am = "ZeroPageY" -> ZeroPageYAddressingMode_load(c)

\* AM::store for the addressing mode am.
\* A dispatch that stores through Immediate where the arm names the
\* accumulator.
AM_store_AccumulatorAsImmediate(am, c, val) ==
    CASE am = "Accumulator" -> ImmediateAddressingMode_store(c, val)
      [] am = "Immediate" -> ImmediateAddressingMode_store(c, val)
      [] am = "Absolute" -> AbsoluteAddressingMode_store(c, val)
      [] am = "AbsoluteWB" -> AbsoluteWBAddressingMode_store(c, val)
      [] am = "AbsoluteX" -> AbsoluteXAddressingMode_store(c, val)
      [] am = "AbsoluteXWB" -> AbsoluteXWBAddressingMode_store(c, val)
      [] am = "AbsoluteY" -> AbsoluteYAddressingMode_store(c, val)
      [] am = "ZeroPage" -> ZeroPageAddressingMode_store(c, val)
      [] am = "ZeroPageWB" -> ZeroPageWBAddressingMode_store(c, val)
      [] am = "ZeroPageX" -> ZeroPageXAddressingMode_store(c, val)
      [] am = "ZeroPageXWB" -> ZeroPageXWBAddressingMode_store(c, val)
      [] am = "ZeroPageY" -> ZeroPageYAddressingMode_store(c, val)

AM_store(am, c, val) ==
    CASE am = "Accumulator" -> AccumulatorAddressingMode_store(c, val)
      [] am = "Immediate" -> ImmediateAddressingMode_store(c, val)
      [] am = "Absolute" -> AbsoluteAddressingMode_store(c, val)
      [] am = "AbsoluteWB" -> AbsoluteWBAddressingMode_store(c, val)
      [] am = "AbsoluteX" -> AbsoluteXAddressingMode_store(c, val)
      [] am = "AbsoluteXWB" -> AbsoluteXWBAddressingMode_store(c, val)
      [] am = "AbsoluteY" -> AbsoluteYAddressingMode_store(c, val)
      [] am = "ZeroPage" -> ZeroPageAddressingMode_store(c, val)
      [] am = "ZeroPageWB" -> ZeroPageWBAddressingMode_store(c, val)
      [] am = "ZeroPageX" -> ZeroPageXAddressingMode_store(c, val)
      [] am = "ZeroPageXWB" -> ZeroPageXWBAddressingMode_store(c, val)
      [] am = "ZeroPageY" -> ZeroPageYAddressingMode_store(c, val)

----------------------------------------------------------------------------
\* Instructions (src/cpu.rs, "Instructions implementation").  An
\* instruction that loads its operand goes on with the pair l = [c, val]
\* the load gives, unless the load panicked.

Loaded(l, F(_)) == IF Halted(l.c) THEN l.c ELSE F(l)

ora(c, am) ==
    Loaded(AM_load(am, c), LAMBDA l :
        [l.c EXCEPT !.regs.a = BitOr(@, l.val)])

eor(c, am) ==
    Loaded(AM_load(am, c), LAMBDA l :
        [l.c EXCEPT !.regs.a = BitXor(@, l.val)])

and(c, am) ==
    Loaded(AM_load(am, c), LAMBDA l :
        [l.c EXCEPT !.regs.a = BitAnd(@, l.val)])

asl(c, am) ==
    Loaded(AM_load(am, c), LAMBDA l :
        AM_store(am, set_flag(l.c, CARRY_FLAG, BitAnd(l.val, \h80) # 0),
                 (l.val * 2) % 256))

\* A rol that shifts the bit it shifts out back in at bit 0, to compare
\* against.
rol_Circular(c, am) ==
    Loaded(AM_load(am, c), LAMBDA l :
        AM_store(am, set_flag(l.c, CARRY_FLAG, BitAnd(l.val, \h80) # 0),
                 BitOr((l.val * 2) % 256, l.val \div 128)))

rol(c, am) ==
    Loaded(AM_load(am, c), LAMBDA l :
        AM_store(am, set_flag(l.c, CARRY_FLAG, BitAnd(l.val, \h80) # 0),
                 BitOr((l.val * 2) % 256,
                       IF get_flag(l.c, CARRY_FLAG) THEN 1 ELSE 0)))

lsr(c, am) ==
    Loaded(AM_load(am, c), LAMBDA l :
        AM_store(am, set_flag(l.c, CARRY_FLAG, BitAnd(l.val, 1) # 0),
                 l.val \div 2))

ror(c, am) ==
    Loaded(AM_load(am, c), LAMBDA l :
        AM_store(am, set_flag(l.c, CARRY_FLAG, BitAnd(l.val, 1) # 0),
                 BitOr(l.val \div 2,
                       IF get_flag(l.c, CARRY_FLAG) THEN 128 ELSE 0)))

\* An adc that leaves the incoming Carry out of the sum, to compare against.
adc_NoCarryIn(c, am) ==
    Loaded(AM_load(am, c), LAMBDA l :
        Bind(c.regs.a + l.val, LAMBDA result :
            [set_flag(l.c, CARRY_FLAG, BitAnd(result, \h100) # 0)
                EXCEPT !.regs.a = result % 256]))

\* result: u16 = a + val (+ 1 with Carry): at most 511, no overflow.
adc(c, am) ==
    Loaded(AM_load(am, c), LAMBDA l :
        Bind(c.regs.a + l.val + (IF get_flag(l.c, CARRY_FLAG) THEN 1 ELSE 0),
             LAMBDA result :
                [set_flag(l.c, CARRY_FLAG, BitAnd(result, \h100) # 0)
                    EXCEPT !.regs.a = result % 256]))

\* result: u16 = a - val (- 1 with Carry), each subtraction checked.
sbc(c, am) ==
    Loaded(AM_load(am, c), LAMBDA l :
        Bind(Sub16(c.regs.a, l.val), LAMBDA r1 :
            IF r1.halt # "none" THEN Panic(l.c, r1.halt)
            ELSE Bind(IF get_flag(l.c, CARRY_FLAG) THEN Sub16(r1.val, 1) ELSE r1,
                      LAMBDA result :
                IF result.halt # "none" THEN Panic(l.c, result.halt)
                ELSE [set_flag(l.c, CARRY_FLAG, BitAnd(result.val, \h100) # 0)
                        EXCEPT !.regs.a = result.val % 256])))

lda(c, am) ==
    Loaded(AM_load(am, c), LAMBDA l : [l.c EXCEPT !.regs.a = l.val])

ldx(c, am) ==
    Loaded(AM_load(am, c), LAMBDA l : [l.c EXCEPT !.regs.x = l.val])

ldy(c, am) ==
    Loaded(AM_load(am, c), LAMBDA l : [l.c EXCEPT !.regs.y = l.val])

nop(c) == c

sta(c, am) == AM_store(am, c, c.regs.a)

stx(c, am) == AM_store(am, c, c.regs.x)

sty(c, am) == AM_store(am, c, c.regs.y)

\* CPU::compare: result = (first as u16).wrapping_sub(second as u16)
\* A compare that also copies bit 7 of the result to the Negative flag.
compare_SetsNegative(c, first, second) ==
    Bind((first - second) % 65536, LAMBDA result :
        set_flag(set_flag(set_flag(c, CARRY_FLAG, BitAnd(result, \h100) # 0),
                          ZERO_FLAG, result = 0),
                 NEG_FLAG, BitAnd(result, \h80) # 0))

compare(c, first, second) ==
    Bind((first - second) % 65536, LAMBDA result :
        set_flag(set_flag(c, CARRY_FLAG, BitAnd(result, \h100) # 0),
                 ZERO_FLAG, result = 0))

cmp(c, am) ==
    Loaded(AM_load(am, c), LAMBDA l : compare(l.c, l.c.regs.a, l.val))

cpx(c, am) ==
    Loaded(AM_load(am, c), LAMBDA l : compare(l.c, l.c.regs.x, l.val))

cpy(c, am) ==
    Loaded(AM_load(am, c), LAMBDA l : compare(l.c, l.c.regs.y, l.val))

\* A branch that takes the offset as a signed byte, to compare against.
Branch_Signed(c, flag, set) ==
    Loaded(ImmediateAddressingMode_load(c), LAMBDA l :
        IF (BitAnd(l.c.regs.flags, flag) # 0) = set
        THEN [l.c EXCEPT !.regs.pc =
                 (@ + (IF l.val >= 128 THEN l.val - 256 ELSE l.val)) % 65536]
        ELSE l.c)

\* The body of the eight branches with the flag to test and the polarity:
\* the offset is an Immediate load, and if (flags & flag) == 0 (bpl, bvc,
\* bcc, bne) or != 0 (bmi, bvs, bcs, beq), self.regs.pc += offset as u16.
Branch(c, flag, set) ==
    Loaded(ImmediateAddressingMode_load(c), LAMBDA l :
        IF (BitAnd(l.c.regs.flags, flag) # 0) = set
        THEN AdvancePc(l.c, l.val)
        ELSE l.c)

bpl(c) == Branch(c, NEG_FLAG, FALSE)
bmi(c) == Branch(c, NEG_FLAG, TRUE)
bvc(c) == Branch(c, OVERFLOW_FLAG, FALSE)
bvs(c) == Branch(c, OVERFLOW_FLAG, TRUE)
bcc(c) == Branch(c, CARRY_FLAG, FALSE)
bcs(c) == Branch(c, CARRY_FLAG, TRUE)
bne(c) == Branch(c, ZERO_FLAG, FALSE)
beq(c) == Branch(c, ZERO_FLAG, TRUE)

\* self.regs.x.wrapping_sub(1): the result is dropped, the register keeps
\* its value (likewise dey, inx, iny).
dex(c) == c
dey(c) == c
inx(c) == c
iny(c) == c

\* jmp with the operand word read high byte first.
jmp_BigEndian(c) ==
    Bind(loadw_move(c), LAMBDA w :
        IF Halted(w.c) THEN w.c
        ELSE [w.c EXCEPT !.regs.pc = (w.val % 256) * 256 + (w.val \div 256)])

jmp(c) ==
    Bind(loadw_move(c), LAMBDA w :
        IF Halted(w.c) THEN w.c ELSE [w.c EXCEPT !.regs.pc = w.val])

----------------------------------------------------------------------------
\* The dispatcher (src/cpu.rs, CPU::emulate_cycle, CPU::reset).

\* The match of CPU::emulate_cycle: the operation and the addressing mode
\* of each opcode, in the order of the source; an opcode with no arm is
\* "illegal".
Decode(opcode) ==
    CASE opcode = \h69 -> [op |-> "adc", am |-> "Immediate"]
      [] opcode = \h65 -> [op |-> "adc", am |-> "ZeroPage"]
      [] opcode = \h75 -> [op |-> "adc", am |-> "ZeroPageX"]
      [] opcode = \h6D -> [op |-> "adc", am |-> "Absolute"]
      [] opcode = \h7D -> [op |-> "adc", am |-> "AbsoluteX"]
      [] opcode = \h79 -> [op |-> "adc", am |-> "AbsoluteY"]
      [] opcode = \hE9 -> [op |-> "sbc", am |-> "Immediate"]
      [] opcode = \hE5 -> [op |-> "sbc", am |-> "ZeroPage"]
      [] opcode = \hF5 -> [op |-> "sbc", am |-> "ZeroPageX"]
      [] opcode = \hED -> [op |-> "sbc", am |-> "Absolute"]
      [] opcode = \hFD -> [op |-> "sbc", am |-> "AbsoluteX"]
      [] opcode = \hF9 -> [op |-> "sbc", am |-> "AbsoluteY"]
      [] opcode = \hC9 -> [op |-> "cmp", am |-> "Immediate"]
      [] opcode = \hC5 -> [op |-> "cmp", am |-> "ZeroPage"]
      [] opcode = \hD5 -> [op |-> "cmp", am |-> "ZeroPageX"]
      [] opcode = \hCD -> [op |-> "cmp", am |-> "Absolute"]
      [] opcode = \hDD -> [op |-> "cmp", am |-> "AbsoluteX"]
      [] opcode = \hD9 -> [op |-> "cmp", am |-> "AbsoluteY"]
      [] opcode = \hE0 -> [op |-> "cpx", am |-> "Immediate"]
      [] opcode = \hE4 -> [op |-> "cpx", am |-> "ZeroPage"]
      [] opcode = \hEC -> [op |-> "cpx", am |-> "Absolute"]
      [] opcode = \hC0 -> [op |-> "cpy", am |-> "Immediate"]
      [] opcode = \hC4 -> [op |-> "cpy", am |-> "ZeroPage"]
      [] opcode = \hCC -> [op |-> "cpy", am |-> "Absolute"]
      [] opcode = \hA9 -> [op |-> "lda", am |-> "Immediate"]
      [] opcode = \hA5 -> [op |-> "lda", am |-> "ZeroPage"]
      [] opcode = \hB5 -> [op |-> "lda", am |-> "ZeroPageX"]
      [] opcode = \hAD -> [op |-> "lda", am |-> "Absolute"]
      [] opcode = \hBD -> [op |-> "lda", am |-> "AbsoluteX"]
      [] opcode = \hB9 -> [op |-> "lda", am |-> "AbsoluteY"]
      [] opcode = \hA2 -> [op |-> "ldx", am |-> "Immediate"]
      [] opcode = \hA6 -> [op |-> "ldx", am |-> "ZeroPage"]
      [] opcode = \hB6 -> [op |-> "ldx", am |-> "ZeroPageY"]
      [] opcode = \hAE -> [op |-> "ldx", am |-> "Absolute"]
      [] opcode = \hBE -> [op |-> "ldx", am |-> "AbsoluteY"]
      [] opcode = \hA0 -> [op |-> "ldy", am |-> "Immediate"]
      [] opcode = \hA4 -> [op |-> "lda", am |-> "ZeroPage"]
      [] opcode = \hB4 -> [op |-> "lda", am |-> "ZeroPageX"]
      [] opcode = \hAC -> [op |-> "ldy", am |-> "Absolute"]
      [] opcode = \hBC -> [op |-> "ldy", am |-> "AbsoluteX"]
      [] opcode = \h85 -> [op |-> "sta", am |-> "ZeroPage"]
      [] opcode = \h95 -> [op |-> "sta", am |-> "ZeroPageX"]
      [] opcode = \h8D -> [op |-> "sta", am |-> "Absolute"]
      [] opcode = \h9D -> [op |-> "sta", am |-> "AbsoluteX"]
      [] opcode = \h99 -> [op |-> "sta", am |-> "AbsoluteY"]
      [] opcode = \h86 -> [op |-> "stx", am |-> "ZeroPage"]
      [] opcode = \h96 -> [op |-> "stx", am |-> "ZeroPageX"]
      [] opcode = \h8E -> [op |-> "stx", am |-> "Absolute"]
      [] opcode = \h84 -> [op |-> "sty", am |-> "ZeroPage"]
      [] opcode = \h94 -> [op |-> "sty", am |-> "ZeroPageX"]
      [] opcode = \h8C -> [op |-> "sty", am |-> "Absolute"]
      [] opcode = \hEA -> [op |-> "nop", am |-> "Implied"]
      [] opcode = \h29 -> [op |-> "and", am |-> "Immediate"]
      [] opcode = \h25 -> [op |-> "and", am |-> "ZeroPage"]
      [] opcode = \h35 -> [op |-> "and", am |-> "ZeroPageX"]
      [] opcode = \h2D -> [op |-> "and", am |-> "Absolute"]
      [] opcode = \h3D -> [op |-> "and", am |-> "AbsoluteX"]
      [] opcode = \h39 -> [op |-> "and", am |-> "AbsoluteY"]
      [] opcode = \h09 -> [op |-> "ora", am |-> "Immediate"]
      [] opcode = \h05 -> [op |-> "ora", am |-> "ZeroPage"]
      [] opcode = \h15 -> [op |-> "ora", am |-> "ZeroPageX"]
      [] opcode = \h0D -> [op |-> "ora", am |-> "Absolute"]
      [] opcode = \h1D -> [op |-> "ora", am |-> "AbsoluteX"]
      [] opcode = \h19 -> [op |-> "ora", am |-> "AbsoluteY"]
      [] opcode = \h49 -> [op |-> "eor", am |-> "Immediate"]
      [] opcode = \h45 -> [op |-> "eor", am |-> "ZeroPage"]
      [] opcode = \h55 -> [op |-> "eor", am |-> "ZeroPageX"]
      [] opcode = \h4D -> [op |-> "eor", am |-> "Absolute"]
      [] opcode = \h5D -> [op |-> "eor", am |-> "AbsoluteX"]
      [] opcode = \h59 -> [op |-> "eor", am |-> "AbsoluteY"]
      [] opcode = \h0A -> [op |-> "asl", am |-> "Accumulator"]
      [] opcode = \h06 -> [op |-> "asl", am |-> "ZeroPageWB"]
      [] opcode = \h16 -> [op |-> "asl", am |-> "ZeroPageXWB"]
      [] opcode = \h0E -> [op |-> "asl", am |-> "AbsoluteWB"]
      [] opcode = \h1E -> [op |-> "asl", am |-> "AbsoluteXWB"]
      [] opcode = \h2A -> [op |-> "rol", am |-> "Accumulator"]
      [] opcode = \h26 -> [op |-> "rol", am |-> "ZeroPageWB"]
      [] opcode = \h36 -> [op |-> "rol", am |-> "ZeroPageXWB"]
      [] opcode = \h2E -> [op |-> "rol", am |-> "AbsoluteWB"]
      [] opcode = \h3E -> [op |-> "rol", am |-> "AbsoluteXWB"]
      [] opcode = \h4A -> [op |-> "lsr", am |-> "Accumulator"]
      [] opcode = \h46 -> [op |-> "lsr", am |-> "ZeroPageWB"]
      [] opcode = \h56 -> [op |-> "lsr", am |-> "ZeroPageXWB"]
      [] opcode = \h4E -> [op |-> "lsr", am |-> "AbsoluteWB"]
      [] opcode = \h5E -> [op |-> "lsr", am |-> "AbsoluteXWB"]
      [] opcode = \h6A -> [op |-> "ror", am |-> "Accumulator"]
      [] opcode = \h66 -> [op |-> "ror", am |-> "ZeroPageWB"]
      [] opcode = \h76 -> [op |-> "ror", am |-> "ZeroPageXWB"]
      [] opcode = \h6E -> [op |-> "ror", am |-> "AbsoluteWB"]
      [] opcode = \h7E -> [op |-> "ror", am |-> "AbsoluteXWB"]
      [] opcode = \h10 -> [op |-> "bpl", am |-> "Implied"]
      [] opcode = \h30 -> [op |-> "bmi", am |-> "Implied"]
      [] opcode = \h50 -> [op |-> "bvc", am |-> "Implied"]
      [] opcode = \h70 -> [op |-> "bvs", am |-> "Implied"]
      [] opcode = \h90 -> [op |-> "bcc", am |-> "Implied"]
      [] opcode = \hB0 -> [op |-> "bcs", am |-> "Implied"]
      [] opcode = \hD0 -> [op |-> "bne", am |-> "Implied"]
      [] opcode = \hF0 -> [op |-> "beq", am |-> "Implied"]
      [] opcode = \h4C -> [op |-> "jmp", am |-> "Implied"]
      [] opcode = \hCA -> [op |-> "dex", am |-> "Implied"]
      [] opcode = \h88 -> [op |-> "dey", am |-> "Implied"]
      [] opcode = \hE8 -> [op |-> "inx", am |-> "Implied"]
      [] opcode = \hC8 -> [op |-> "iny", am |-> "Implied"]
      [] OTHER -> [op |-> "illegal", am |-> "Implied"]

\* The call made by the arm of the match that Decode gives.
Exec(d, c) ==
    CASE d.op = "adc" -> adc(c, d.am)
      [] d.op = "sbc" -> sbc(c, d.am)
      [] d.op = "cmp" -> cmp(c, d.am)
      [] d.op = "cpx" -> cpx(c, d.am)
      [] d.op = "cpy" -> cpy(c, d.am)
      [] d.op = "lda" -> lda(c, d.am)
      [] d.op = "ldx" -> ldx(c, d.am)
      [] d.op = "ldy" -> ldy(c, d.am)
      [] d.op = "sta" -> sta(c, d.am)
      [] d.op = "stx" -> stx(c, d.am)
      [] d.op = "sty" -> sty(c, d.am)
      [] d.op = "nop" -> nop(c)
      [] d.op = "and" -> and(c, d.am)
      [] d.op = "ora" -> ora(c, d.am)
      [] d.op = "eor" -> eor(c, d.am)
      [] d.op = "asl" -> asl(c, d.am)
      [] d.op = "rol" -> rol(c, d.am)
      [] d.op = "lsr" -> lsr(c, d.am)
      [] d.op = "ror" -> ror(c, d.am)
      [] d.op = "bpl" -> bpl(c)
      [] d.op = "bmi" -> bmi(c)
      [] d.op = "bvc" -> bvc(c)
      [] d.op = "bvs" -> bvs(c)
      [] d.op = "bcc" -> bcc(c)
      [] d.op = "bcs" -> bcs(c)
      [] d.op = "bne" -> bne(c)
      [] d.op = "beq" -> beq(c)
      [] d.op = "jmp" -> jmp(c)
      [] d.op = "dex" -> dex(c)
      [] d.op = "dey" -> dey(c)
      [] d.op = "inx" -> inx(c)
      [] d.op = "iny" -> iny(c)
      [] OTHER -> Panic(c, "IllegalOpcode")

\* CPU::emulate_cycle: fetch the opcode with loadb_move, then the match.
emulate_cycle(c) ==
    Bind(loadb_move(c), LAMBDA f :
        IF Halted(f.c) THEN f.c ELSE Exec(Decode(f.val), f.c))

\* A reset that reads the vector two bytes too low, to compare against.
reset_LowVector(c) ==
    Bind(Addressable_loadw(c.memory, RESET_VECTOR - 2), LAMBDA w :
        IF Halted(c) THEN c
        ELSE IF w.halt # "none" THEN Panic(c, w.halt)
        ELSE [c EXCEPT !.regs.pc = w.val])

\* CPU::reset: self.regs.pc = self.memory.loadw(RESET_VECTOR)
reset(c) ==
    Bind(Addressable_loadw(c.memory, RESET_VECTOR), LAMBDA w :
        IF Halted(c) THEN c
        ELSE IF w.halt # "none" THEN Panic(c, w.halt)
        ELSE [c EXCEPT !.regs.pc = w.val])

----------------------------------------------------------------------------
\* Cartridges and the programs on them.

\* seq laid out from address (or offset) off.
Place(seq, off) == [i \in off..(off + Len(seq) - 1) |-> seq[i - off + 1]]

\* The sixteen header bytes of an image with the magic, size_prg PRG
\* banks, no CHR, no trainer and zeros after them.
Header(size_prg) ==
    <<\h4E, \h45, \h53, \h1A, size_prg, 0, 0, 0, 0, 0, 0, 0, 0, 0, 0, 0>>

\* The image file of a cartridge with size_prg PRG banks (header byte 4)
\* and size_prg * 16384 bytes after the header.  `layout` gives the bytes
\* of the PRG by the CPU address they are to be read at, on the layout of
\* a cartridge without mapper (one bank: 0x8000 and 0xC000 are the same
\* bank; two and more: PRG offset = address - 0x8000); every other byte
\* of the PRG is 0xFF.
Image(size_prg, layout) ==
    LET len == size_prg * PRG_BANK_SIZE
        Off(a) == IF size_prg = 1 THEN (a - \h8000) % PRG_BANK_SIZE ELSE a - \h8000
        offs == {Off(a) : a \in DOMAIN layout}
    IN  [len |-> HEADER_SIZE + len,
         fill |-> 255,
         cells |-> Place(Header(size_prg), 0) @@
                   [i \in {HEADER_SIZE + o : o \in {o \in offs : o < len}} |->
                       layout[CHOOSE a \in DOMAIN layout :
                                 Off(a) = i - HEADER_SIZE]]]

\* The ROM that ROM::from_file gives for that image.
Cartridge(size_prg, layout) == ROM_from_file(Image(size_prg, layout)).val

\* The word w as the two bytes of a vector or of an absolute operand.
Word(w) == <<w % 256, w \div 256>>

\* Sample bytes: both ends, the sign bit and its neighbours, and the
\* operands of the examples of the specification (0x10, 0x01, 0xFF).
ByteSamples == {\h00, \h01, \h10, \h7F, \h80, \hFF}

\* A program that leaves Carry/Zero as f says: 0 neither, 1 Carry (CMP of
\* 0 with 1), 2 Zero (CMP of 0 with 0).
SetFlags(f) ==
    CASE f = 0 -> << >>
      [] f = 1 -> <<\hA9, 0, \hC9, 1>>
      [] f = 2 -> <<\hA9, 0, \hC9, 0>>

\* A program that stores m at RAM 0x0010, sets the flags, and loads X, Y
\* and A: LDA #m; STA $10; <SetFlags>; LDX #x; LDY #y; LDA #a
Setup(m, f, a, x, y) ==
    (IF m = 0 THEN << >> ELSE <<\hA9, m, \h85, \h10>>)
        \o SetFlags(f) \o <<\hA2, x, \hA0, y, \hA9, a>>

\* The operand bytes that follow an opcode of addressing mode am.
OperandWidth(am) ==
    CASE am \in {"Implied", "Accumulator"} -> 0
      [] am \in {"Immediate", "ZeroPage", "ZeroPageWB", "ZeroPageX",
                 "ZeroPageXWB", "ZeroPageY"} -> 1
      [] OTHER -> 2

\* The instructions with opcode op and operand bytes from b1s and b2s.
Instructions(ops, b1s, b2s) ==
    UNION {
        LET w == IF Decode(op).op \in {"bpl", "bmi", "bvc", "bvs", "bcc", "bcs",
                                      "bne", "beq"} THEN 1
                 ELSE IF Decode(op).op = "jmp" THEN 2
                 ELSE OperandWidth(Decode(op).am)
        IN  CASE w = 0 -> {<<op>>}
              [] w = 1 -> {<<op, b1>> : b1 \in b1s}
              [] w = 2 -> {<<op, b1, b2>> : b1 \in b1s, b2 \in b2s}
        : op \in ops }

\* The image of a program at 0x8000 with the reset vector on it; the two
\* bytes after the vectors' place hold LDA #.. / NOP, for runs that jump
\* to the end of the address space.
ProgramLayout(prog) ==
    Place(prog, \h8000) @@ Place(Word(\h8000), RESET_VECTOR)
        @@ Place(<<\hA9, \hEA>>, \hFFFE)

\* The image of the bus scenarios: the reset vector 0x1234 (bytes 0x34,
\* 0x12) and bytes that differ at 0x8000.. and at 0xC000...
BusLayout ==
    Place(<<\hEA, \h4C, \h00, \h80>>, \h8000) @@ Place(<<\h11, \h22>>, \hC000)
        @@ Place(Word(\h1234), RESET_VECTOR) @@ Place(<<\h33, \h44>>, \hBFFE)

\* Arithmetic and compare instructions on every pair of sample bytes.
AluPrograms ==
    { Setup(0, f, a, x, \h02) \o ins :
        f \in {0, 1, 2}, a \in ByteSamples, x \in {\h10, \hFF},
        ins \in Instructions({\h69, \hE9, \hC9, \hE0, \hC0}, ByteSamples, {0}) }

\* Every opcode byte, with operands in RAM, in the stub regions and in PRG.
OpcodePrograms ==
    { Setup(\h5A, f, \h81, x, \h02) \o ins :
        f \in {0, 1}, x \in {\h01, \hFF},
        ins \in Instructions(0..255, {\h10, \hFF}, {\h00, \h40, \hFF}) }

\* Every branch with every sample offset, with neither flag, with Carry
\* and with Zero.
BranchPrograms ==
    { Setup(0, f, \h81, \h01, \h02) \o ins :
        f \in {0, 1, 2},
        ins \in Instructions({\h10, \h30, \h50, \h70, \h90, \hB0, \hD0, \hF0},
                             ByteSamples, {0}) }

\* Two shifts or rotates of the accumulator in a row.
ShiftPrograms ==
    { Setup(0, f, a, \h01, \h02) \o <<op1, op2>> :
        f \in {0, 1}, a \in ByteSamples \cup {\h55, \hAA},
        op1 \in {\h0A, \h4A, \h2A, \h6A}, op2 \in {\h0A, \h4A, \h2A, \h6A} }

\* The store and the load opcodes of each register by addressing mode, as
\* the 6502 pairs them.
StoreLoadPairs ==
    { <<\h85, \hA5>>, <<\h95, \hB5>>, <<\h8D, \hAD>>, <<\h9D, \hBD>>,
      <<\h99, \hB9>>,
      <<\h86, \hA6>>, <<\h96, \hB6>>, <<\h8E, \hAE>>,
      <<\h84, \hA4>>, <<\h94, \hB4>>, <<\h8C, \hAC>> }

\* The operands of the store/load programs for an opcode: places in RAM,
\* in the zero page or, for the absolute modes, in three of its mirrors.
RamOperands(op) ==
    IF OperandWidth(Decode(op).am) = 1
    THEN {<<\h10>>, <<\hF0>>}
    ELSE {<<\h10, \h00>>, <<\hF0, \h07>>, <<\h10, \h1F>>}

\* A store to RAM and then the load of the same register with the same
\* operand and mode; RAM 0x0010 holds 0x5A before.
StoreLoadPrograms ==
    UNION { { Setup(\h5A, 0, \h81, x, \h02)
                \o <<sl[1]>> \o operand \o <<sl[2]>> \o operand :
              x \in {\h01, \h02}, operand \in RamOperands(sl[1]) } :
            sl \in StoreLoadPairs }

\* What the driver does by itself: bus accesses and resets.
BusScenarios ==
    { [file |-> Image(n, BusLayout), checks |-> k,
       driver |-> [bus |-> MaxBusOps, resets |-> MaxResets]] :
        n \in 0..MaxBanks, k \in BOOLEAN }

\* A program run from reset: one reset enters it, and one more can come at
\* any point of it.
ProgramScenarios ==
    { [file |-> Image(n, ProgramLayout(prog)), checks |-> k,
       driver |-> [bus |-> 0, resets |-> 2]] :
        n \in {1, 2}, k \in BOOLEAN,
        prog \in AluPrograms \cup OpcodePrograms \cup BranchPrograms
                    \cup ShiftPrograms \cup StoreLoadPrograms }

Scenarios == BusScenarios \cup ProgramScenarios

\* Addresses of the driver's bus accesses: both ends of every region of
\* the bus, the RAM mirrors of 0x0000 and 0x07FF, and the PRG mirrors.
BusAddrs ==
    {\h0000, \h07FF, \h0800, \h0FFF, \h1000, \h1800, \h1FFF,
     \h2000, \h3FFF, \h4000, \h401F, \h4020, \h5FFF, \h6000, \h7FFF,
     \h8000, \h8001, \hBFFF, \hC000, \hC001, \hFFFC, \hFFFF}

StoreVals == {\h00, \hEA, \h5A}

----------------------------------------------------------------------------
\* The state machine.

\* What is kept of the operation before the last one: for a step, the
\* address and byte of its opcode and the registers before it.
NoPrev == [op |-> "none", addr |-> 0, val |-> 0, regs |-> Registers_new]

NoOp == [op |-> "new", addr |-> 0, val |-> 0, res |-> Ok(0), acc |-> << >>,
         pre_regs |-> Registers_new, pre_memory |-> << >>, prev |-> NoPrev]

\* CPU::new of an image that loads: the cartridge is loaded, the registers
\* are zero, RAM is zero.
Init ==
    \E sc \in Scenarios :
        \E m \in {Memory_from_rom(ROM_from_file(sc.file).val)} :
            /\ file = sc.file
            /\ regs = Registers_new
            /\ memory = m
            /\ halt = "none"
            /\ overflow_checks = sc.checks
            /\ driver = sc.driver
            /\ last = [NoOp EXCEPT !.pre_memory = m]

cpu == [regs |-> regs, memory |-> memory, halt |-> halt, acc |-> << >>]

\* The operation op of the driver, with what it was called on, what came
\* back and the state before it.
Record(op, addr, val, res, acc) ==
    [op |-> op, addr |-> addr, val |-> val, res |-> res, acc |-> acc,
     pre_regs |-> regs, pre_memory |-> memory,
     prev |-> IF last.op = "step"
              THEN [op |-> "step", addr |-> last.addr, val |-> last.val,
                    regs |-> last.pre_regs]
              ELSE [NoPrev EXCEPT !.op = last.op]]

\* The driver calls memory.storeb(addr, val).
Storeb(addr, val) ==
    /\ halt = "none"
    /\ driver.bus > 0
    /\ \E r \in {Memory_storeb(memory, addr, val)} :
           /\ memory' = r.memory
           /\ halt' = r.halt
    /\ last' = Record("storeb", addr, val, Ok(0), << >>)
    /\ driver' = [driver EXCEPT !.bus = @ - 1]
    /\ UNCHANGED <<regs, overflow_checks, file>>

\* The driver calls memory.loadb(addr).
Loadb(addr) ==
    /\ halt = "none"
    /\ driver.bus > 0
    /\ \E r \in {Memory_loadb(memory, addr)} :
           /\ halt' = r.halt
           /\ last' = Record("loadb", addr, 0, r, << >>)
    /\ driver' = [driver EXCEPT !.bus = @ - 1]
    /\ UNCHANGED <<regs, memory, overflow_checks, file>>

\* The driver calls cpu.reset().
Reset ==
    /\ halt = "none"
    /\ driver.resets > 0
    /\ \E c \in {reset(cpu)} :
           /\ regs' = c.regs
           /\ memory' = c.memory
           /\ halt' = c.halt
    /\ last' = Record("reset", RESET_VECTOR, 0,
                      Addressable_loadw(memory, RESET_VECTOR), << >>)
    /\ driver' = [driver EXCEPT !.resets = @ - 1]
    /\ UNCHANGED <<overflow_checks, file>>

\* The driver calls cpu.emulate_cycle(): one step.  The record holds the
\* address and the byte of the opcode.
Step ==
    /\ halt = "none"
    /\ \E c \in {emulate_cycle(cpu)}, f \in {Memory_loadb(memory, regs.pc)} :
           /\ regs' = c.regs
           /\ memory' = c.memory
           /\ halt' = c.halt
           /\ last' = Record("step", regs.pc, f.val, f, c.acc)
    /\ UNCHANGED <<driver, overflow_checks, file>>

Next ==
    \/ \E addr \in BusAddrs, val \in StoreVals : Storeb(addr, val)
    \/ \E addr \in BusAddrs : Loadb(addr)
    \/ Reset
    \/ Step

Spec == Init /\ [][Next]_vars

----------------------------------------------------------------------------
\* The loader's state machine: the process starts with an image file and
\* calls CPU::new on it.

\* Before CPU::new returns there is no CPU and no bus.
Unbuilt == [built |-> FALSE]

\* Sixteen header bytes: every magic byte right or wrong, PRG and CHR bank
\* counts, flags_6 without and with the trainer bit, and the nine bytes
\* after it all r.
LoadHeaders ==
    { <<m1, m2, m3, m4, prg, chr, f6, r, r, r, r, r, r, r, r, r>> :
        m1 \in {\h4E, \h7F}, m2 \in {\h45, \h4C}, m3 \in {\h53, \h46},
        m4 \in {\h1A, \h00},
        prg \in 0..MaxBanks, chr \in {0, 1}, f6 \in {\h00, \h04, \hFB, \hFF},
        r \in {\h00, \hFF} }

\* The bytes an image with header h declares: header, trainer, PRG, CHR.
Declared(h) ==
    HEADER_SIZE + (IF (h[7] \div 4) % 2 = 1 THEN TRAINER_SIZE ELSE 0)
        + h[5] * PRG_BANK_SIZE + h[6] * CHR_BANK_SIZE

\* The offsets of an image file at which a PRG or a CHR block can start:
\* after the header or after the trainer, and whole PRG banks further.
BlockStarts ==
    { s + k * PRG_BANK_SIZE :
        s \in {HEADER_SIZE, HEADER_SIZE + TRAINER_SIZE}, k \in 0..MaxBanks }

\* The image file of n bytes with header h; the bytes at the places a
\* block can start differ from each other (0x11, 0x12, ... after the
\* header, 0x22, 0x23, ... after the trainer), every other byte is 0xFF.
LoadFile(h, n) ==
    [len |-> n,
     fill |-> \hFF,
     cells |-> [i \in {j \in (0..(HEADER_SIZE - 1)) \cup BlockStarts : j < n}
                  |-> IF i < HEADER_SIZE THEN h[i + 1]
                      ELSE IF (i - HEADER_SIZE) % PRG_BANK_SIZE = 0
                      THEN \h11 + (i - HEADER_SIZE) \div PRG_BANK_SIZE
                      ELSE \h22 + (i - HEADER_SIZE) \div PRG_BANK_SIZE]]

\* Image files: the first three bytes of a header, a header alone, and a
\* header with what it declares, with one byte less, with some bytes more.
LoadFiles ==
    UNION { { LoadFile(h, n) :
                n \in {3, HEADER_SIZE, Declared(h) - 1, Declared(h), Declared(h) + 7} } :
            h \in LoadHeaders }

LoadInit ==
    \E f \in LoadFiles, k \in BOOLEAN :
        /\ file = f
        /\ regs = Registers_new
        /\ memory = Unbuilt
        /\ halt = "none"
        /\ overflow_checks = k
        /\ driver = [bus |-> 0, resets |-> 0]
        /\ last = [NoOp EXCEPT !.op = "start", !.pre_memory = Unbuilt]

\* CPU::new(file): ROM::from_file, then Registers::new and
\* Memory::from_rom; a panic of the loader ends the process with no CPU.
CPU_new ==
    /\ halt = "none"
    /\ last.op = "start"
    /\ \E r \in {ROM_from_file(file)} :
           /\ halt' = r.halt
           /\ memory' = IF r.halt = "none" THEN Memory_from_rom(r.val) ELSE memory
           /\ last' = Record("new", 0, 0, [halt |-> r.halt, val |-> 0], << >>)
    /\ regs' = Registers_new
    /\ UNCHANGED <<driver, overflow_checks, file>>

LoadNext == CPU_new

LoadSpec == LoadInit /\ [][LoadNext]_vars

----------------------------------------------------------------------------
\* Properties.

Carry(r) == r.flags % 2
Zero(r) == (r.flags \div 2) % 2

\* The last operation is a completed step of one of the operations ops.
Stepped(ops) ==
    last.op = "step" /\ halt = "none" /\ Decode(last.val).op \in ops

\* The operand the last step's addressing mode loaded: the accumulator, the
\* byte after the opcode, or the byte at the address of its bus load.
Operand ==
    IF last.acc # << >> /\ last.acc[1].kind = "load"
    THEN Memory_loadb(last.pre_memory, last.acc[1].addr).val
    ELSE IF Decode(last.val).am = "Accumulator" THEN last.pre_regs.a
    ELSE Memory_loadb(last.pre_memory, last.addr + 1).val

\* C1: after storeb(a, v) at an address of the RAM space (a < 0x2000, any
\* of the four mirrors), loadb of each of the four mirrors of that cell
\* returns v, whatever was stored before.
C1_RamMirrorRoundTrip ==
    (last.op = "storeb" /\ last.addr < \h2000) =>
        \A k \in 0..3 :
            Memory_loadb(memory, (last.addr % \h800) + k * \h800) = Ok(last.val)

\* C1 witness: a store of a non-zero byte through the last mirror, after an
\* earlier store of the driver left another RAM cell non-zero.
C1_Witness ==
    /\ last.op = "storeb" /\ last.addr = \h1FFF /\ last.val = \h5A
    /\ DOMAIN last.pre_memory.ram # {}
    /\ Memory_loadb(memory, \h07FF) = Ok(\h5A)

\* C2 (as claimed): after CMP/CPX/CPY of register r with operand v, Carry = 1
\* iff r >= v, Zero = 1 iff r = v, and A, X, Y keep their values.
C2_CompareNoBorrow ==
    Stepped({"cmp", "cpx", "cpy"}) =>
        LET r == CASE Decode(last.val).op = "cmp" -> last.pre_regs.a
                   [] Decode(last.val).op = "cpx" -> last.pre_regs.x
                   [] Decode(last.val).op = "cpy" -> last.pre_regs.y
        IN  /\ (Carry(regs) = 1) <=> (r >= Operand)
            /\ (Zero(regs) = 1) <=> (r = Operand)
            /\ regs.a = last.pre_regs.a
            /\ regs.x = last.pre_regs.x
            /\ regs.y = last.pre_regs.y

\* C3 (as claimed): a step that halts on an illegal opcode leaves A, X, Y, S,
\* P and PC as they were before the opcode fetch.
C3_IllegalOpcodeKeepsRegisters ==
    (last.op = "step" /\ halt = "IllegalOpcode") => regs = last.pre_regs

\* C4: after ADC with accumulator a, operand v and incoming Carry c, the
\* accumulator is (a + v + c) mod 256 and Carry = 1 iff a + v + c >= 256.
C4_AdcBitExact ==
    Stepped({"adc"}) =>
        LET sum == last.pre_regs.a + Operand + Carry(last.pre_regs)
        IN  /\ regs.a = sum % 256
            /\ (Carry(regs) = 1) <=> (sum >= 256)

\* C4 witness: the example of the specification, A = 0xFF, Carry = 0,
\* operand 0x01, gives A = 0x00 and Carry = 1.
C4_Witness ==
    /\ Stepped({"adc"})
    /\ last.pre_regs.a = \hFF /\ Carry(last.pre_regs) = 0 /\ Operand = \h01
    /\ regs.a = \h00 /\ Carry(regs) = 1

\* C5: a reset() that returns sets PC to the little-endian word the bus
\* reads at 0xFFFC/0xFFFD and changes nothing else: A, X, Y, S, P, RAM and
\* the cartridge are as before.  With PRG banks on the cartridge it returns.
C5_ResetLoadsVector ==
    last.op = "reset" =>
        /\ memory.rom.header.size_prg >= 1 => halt = "none"
        /\ halt = "none" =>
            /\ regs = [last.pre_regs EXCEPT
                         !.pc = Memory_loadb(memory, \hFFFC).val
                                + 256 * Memory_loadb(memory, \hFFFD).val]
            /\ memory = last.pre_memory

\* C5 witness: the bytes 0x34, 0x12 at 0xFFFC give PC = 0x1234, from a state
\* with RAM written.
C5_Witness ==
    /\ last.op = "reset" /\ halt = "none"
    /\ Memory_loadb(memory, \hFFFC) = Ok(\h34)
    /\ Memory_loadb(memory, \hFFFD) = Ok(\h12)
    /\ regs.pc = \h1234
    /\ DOMAIN memory.ram # {}

\* C5 witness of the frame: a reset in the middle of a program, with A, X,
\* Y and the flags set by it, keeps them.
C5_WitnessRegisters ==
    /\ last.op = "reset" /\ halt = "none"
    /\ regs.a # 0 /\ regs.x # 0 /\ regs.y # 0 /\ regs.flags # 0

\* Offsets of the first PRG bank that are looked at: those the image sets,
\* both ends of the bank and one inside it.
PrgOffsets ==
    {i \in DOMAIN memory.rom.prg.cells : i < PRG_BANK_SIZE}
        \cup {\h0000, \h1000, \h3FFF}

\* A bus with every RAM cell non-zero and the one-bank cartridge of the bus
\* scenarios.
FullMemory ==
    [ram |-> [i \in 0..(RAM_SIZE - 1) |-> \hEA],
     rom |-> Cartridge(1, BusLayout)]

\* On that bus the two windows agree with the PRG at every offset of the
\* bank.
MirrorAtEveryOffset ==
    \A i \in 0..(PRG_BANK_SIZE - 1) :
        /\ Memory_loadb(FullMemory, \h8000 + i) = Ok(PrgAt(FullMemory.rom, i))
        /\ Memory_loadb(FullMemory, \hC000 + i) = Ok(PrgAt(FullMemory.rom, i))

\* C6: with prg_banks = 1, loadb(0x8000 + i) and loadb(0xC000 + i) both
\* return prg[i], in every state.
C6_SingleBankMirror ==
    /\ MirrorAtEveryOffset
    /\ memory.rom.header.size_prg = 1 =>
        \A i \in PrgOffsets :
            /\ Memory_loadb(memory, \h8000 + i) = Ok(PrgAt(memory.rom, i))
            /\ Memory_loadb(memory, \hC000 + i) = Ok(PrgAt(memory.rom, i))

\* C6 witness: one bank, and the driver's loadb(0xC001) returned prg[1],
\* the 0x4C of the image, after another bus access.
C6_Witness ==
    /\ memory.rom.header.size_prg = 1
    /\ last.op = "loadb" /\ last.addr = \hC001
    /\ last.res = Ok(\h4C) /\ PrgAt(memory.rom, 1) = \h4C
    /\ driver.bus = 0

\* C7 (as claimed): loadb and storeb of the bus return without a failure at
\* every address, for every PRG bank count.
C7_BusAccessNeverFails ==
    last.op \in {"loadb", "storeb"} => halt = "none"

\* The last operation tried a store to the PRG space: the driver's storeb,
\* or a step whose addressing mode stored there.
StoredToPrg ==
    \/ last.op = "storeb" /\ last.addr >= \h8000
    \/ /\ last.op = "step"
       /\ \E i \in DOMAIN last.acc :
              last.acc[i].kind = "store" /\ last.acc[i].addr >= \h8000

\* C8: no operation changes the PRG (it stays the PRG of the image), and a
\* store to 0x8000..0xFFFF, by the driver or by an instruction, returns
\* without an error.
C8_PrgImmutable ==
    /\ memory.rom = last.pre_memory.rom
    /\ StoredToPrg => halt = "none"

\* C8 witness: a shift wrote its result back to an address of the PRG.
C8_Witness ==
    /\ Stepped({"asl", "lsr", "rol", "ror"})
    /\ StoredToPrg
    /\ memory.rom = last.pre_memory.rom

\* C8 witness: STA/STX/STY stored to an address of the PRG.
C8_WitnessStore ==
    /\ Stepped({"sta", "stx", "sty"})
    /\ StoredToPrg

\* The region of the table of the bus that holds addr: the set of the rows
\* whose range addr is in.
TableRows(addr) ==
    {r \in {"ram", "ppu", "apu", "expansion", "sram", "rom"} :
        CASE r = "ram" -> addr >= \h0000 /\ addr <= \h1FFF
          [] r = "ppu" -> addr >= \h2000 /\ addr <= \h3FFF
          [] r = "apu" -> addr >= \h4000 /\ addr <= \h401F
          [] r = "expansion" -> addr >= \h4020 /\ addr <= \h5FFF
          [] r = "sram" -> addr >= \h6000 /\ addr <= \h7FFF
          [] r = "rom" -> addr >= \h8000 /\ addr <= \hFFFF}

\* Every 16-bit address is in one row of the table, and that row is the
\* branch loadb takes and the branch storeb takes.
RegionPartition ==
    \A addr \in 0..65535 :
        TableRows(addr) = {LoadRegion(addr)} /\ StoreRegion(addr) = LoadRegion(addr)

\* On the bus with every RAM cell non-zero, every stub address reads 0 and
\* a store to it returns the bus as it was.
StubsAtEveryAddress ==
    \A addr \in \h2000..\h7FFF :
        /\ Memory_loadb(FullMemory, addr) = Ok(0)
        /\ Memory_storeb(FullMemory, addr, \h5A)
               = [halt |-> "none", memory |-> FullMemory]

\* C9: the decode is a partition; loadb of a stub address (0x2000..0x7FFF)
\* is 0 in every state; and a storeb there changes neither RAM nor
\* anything else, so that the loadb right after it still gives 0.
C9_StubsReadZero ==
    /\ RegionPartition
    /\ StubsAtEveryAddress
    /\ \A addr \in {a \in BusAddrs \cup {last.addr} : a >= \h2000 /\ a <= \h7FFF} :
           Memory_loadb(memory, addr) = Ok(0)
    /\ (last.op = "storeb" /\ last.addr >= \h2000 /\ last.addr <= \h7FFF) =>
           memory = last.pre_memory /\ halt = "none"

\* C9 witness: the driver stored a non-zero byte at a stub address while
\* RAM held a non-zero cell, and the address reads 0.
C9_Witness ==
    /\ last.op = "storeb" /\ last.addr = \h6000 /\ last.val = \hEA
    /\ DOMAIN memory.ram # {}
    /\ Memory_loadb(memory, \h6000) = Ok(0)

\* C10 (as claimed): a step that halts leaves the registers and RAM as they
\* were before it.
C10_StepAtomic ==
    (last.op = "step" /\ halt # "none") =>
        regs = last.pre_regs /\ memory = last.pre_memory

\* The first four bytes of the file are 4E 45 53 1A.
MagicBytes ==
    /\ file.len >= 4
    /\ <<FileAt(file, 0), FileAt(file, 1), FileAt(file, 2), FileAt(file, 3)>>
           = <<\h4E, \h45, \h53, \h1A>>

C11_WitnessLoads ==
    /\ last.op = "new" /\ MagicBytes
    /\ FileAt(file, 15) = \hFF /\ FileAt(file, 4) = 2
    /\ halt = "none" /\ memory.rom.header.size_prg = 2

\* The k-th byte after the opcode of the last step (k = 1, 2).
OperandByte(k) == Memory_loadb(last.pre_memory, last.addr + k).val

\* The word the two operand bytes of the last step make.
OperandWord == OperandByte(1) + 256 * OperandByte(2)

ShiftOps == {"asl", "lsr", "rol", "ror"}

\* C12 (as claimed): a shift or rotate of a memory operand loads the byte
\* from the address it stores the result to, and that address is the one
\* the operand designates: the operand byte for zero page, the operand
\* word for absolute, plus X for the indexed modes.
C12_ReadModifyWriteOneAddress ==
    (Stepped(ShiftOps) /\ Decode(last.val).am # "Accumulator") =>
        LET am == Decode(last.val).am
            e == CASE am = "ZeroPageWB" -> OperandByte(1)
                   [] am = "ZeroPageXWB" -> OperandByte(1) + last.pre_regs.x
                   [] am = "AbsoluteWB" -> OperandWord
                   [] am = "AbsoluteXWB" -> OperandWord + last.pre_regs.x
        IN  /\ Len(last.acc) = 2
            /\ last.acc[1].kind = "load" /\ last.acc[2].kind = "store"
            /\ last.acc[1].addr = last.acc[2].addr
            /\ last.acc[2].addr \in {e, e % 256, e % 65536}

\* C13 (as claimed): the address a ZeroPage,X or ZeroPage,Y load or store
\* accesses is (operand byte + index) mod 256.
C13_ZeroPageIndexedWraps ==
    (Stepped({"adc", "sbc", "cmp", "lda", "ldx", "ldy", "sta", "stx", "sty",
              "and", "ora", "eor"} \cup ShiftOps)
        /\ Decode(last.val).am \in {"ZeroPageX", "ZeroPageXWB", "ZeroPageY"}) =>
        LET i == IF Decode(last.val).am = "ZeroPageY"
                 THEN last.pre_regs.y ELSE last.pre_regs.x
        IN  \A k \in DOMAIN last.acc :
                last.acc[k].addr = (OperandByte(1) + i) % 256

\* C14 (as claimed): an LDY opcode leaves the operand in Y and A and X as
\* they were; an LDA opcode changes A only, an LDX opcode X only.
C14_LoadWritesOwnRegister ==
    (last.op = "step" /\ halt = "none") =>
        /\ last.val \in {\hA0, \hA4, \hB4, \hAC, \hBC} =>
              /\ regs.y = Operand
              /\ regs.a = last.pre_regs.a /\ regs.x = last.pre_regs.x
        /\ last.val \in {\hA9, \hA5, \hB5, \hAD, \hBD, \hB9} =>
              /\ regs.a = Operand
              /\ regs.x = last.pre_regs.x /\ regs.y = last.pre_regs.y
        /\ last.val \in {\hA2, \hA6, \hB6, \hAE, \hBE} =>
              /\ regs.x = Operand
              /\ regs.a = last.pre_regs.a /\ regs.y = last.pre_regs.y

\* C15 (as claimed): INX, INY, DEX, DEY leave the register one more or one
\* less than it was, modulo 256.
C15_IncrementDecrement ==
    /\ Stepped({"inx"}) => regs.x = (last.pre_regs.x + 1) % 256
    /\ Stepped({"iny"}) => regs.y = (last.pre_regs.y + 1) % 256
    /\ Stepped({"dex"}) => regs.x = (last.pre_regs.x - 1) % 256
    /\ Stepped({"dey"}) => regs.y = (last.pre_regs.y - 1) % 256

BranchOps == {"bpl", "bmi", "bvc", "bvs", "bcc", "bcs", "bne", "beq"}

\* The flag a branch tests and the value it branches on.
BranchFlag(op) ==
    CASE op \in {"bpl", "bmi"} -> NEG_FLAG
      [] op \in {"bvc", "bvs"} -> OVERFLOW_FLAG
      [] op \in {"bcc", "bcs"} -> CARRY_FLAG
      [] op \in {"bne", "beq"} -> ZERO_FLAG

BranchOnSet(op) == op \in {"bmi", "bvs", "bcs", "beq"}

\* The last step was a branch that the flags before it make taken.
BranchTaken ==
    ((last.pre_regs.flags \div BranchFlag(Decode(last.val).op)) % 2 = 1)
        = BranchOnSet(Decode(last.val).op)

\* C16: after a branch at p with offset byte o, PC = p + 2 + o when the
\* flag it tests has its polarity and PC = p + 2 when not; the other
\* registers and memory are as before.
C16_BranchTarget ==
    Stepped(BranchOps) =>
        /\ regs.pc = last.addr + 2 + (IF BranchTaken THEN OperandByte(1) ELSE 0)
        /\ regs = [last.pre_regs EXCEPT !.pc = regs.pc]
        /\ memory = last.pre_memory

\* C16 witness: BEQ with Zero set and offset 0x80 went forward by 0x80.
C16_Witness ==
    /\ Stepped({"beq"}) /\ Zero(last.pre_regs) = 1
    /\ OperandByte(1) = \h80
    /\ regs.pc = last.addr + 2 + \h80

\* C16 witness: BCC with Carry set is not taken.
C16_WitnessNotTaken ==
    /\ Stepped({"bcc"}) /\ Carry(last.pre_regs) = 1
    /\ OperandByte(1) = \hFF
    /\ regs.pc = last.addr + 2

\* C17 (as claimed): an SBC step whose operand was loaded completes, with
\* A = (A - v - c) mod 256 and Carry = bit 8 of (A - v - c) mod 65536.
C17_SbcMirrorsAdc ==
    (last.op = "step" /\ Decode(last.val).op = "sbc"
        /\ halt \in {"none", "Overflow"}) =>
        LET r == (last.pre_regs.a - Operand - Carry(last.pre_regs)) % 65536
        IN  /\ halt = "none"
            /\ regs.a = r % 256
            /\ Carry(regs) = (r \div 256) % 2

\* The last step was the shift or rotate op of the accumulator.
SteppedAcc(op) ==
    Stepped({op}) /\ Decode(last.val).am = "Accumulator"

\* C18: in accumulator mode ASL gives A = 2A mod 256, Carry = bit 7 of A;
\* LSR gives A div 2, Carry = bit 0; ROL gives 2A mod 256 + c, Carry = bit
\* 7; ROR gives A div 2 + 128 c, Carry = bit 0; and a ROR right after a
\* ROL, or a ROL right after a ROR, gives back A and Carry.
C18_AccumulatorShifts ==
    LET a == last.pre_regs.a
        c == Carry(last.pre_regs)
        After(op1, op2) ==
            (SteppedAcc(op2) /\ last.prev.op = "step"
                /\ Decode(last.prev.val) = [op |-> op1, am |-> "Accumulator"]) =>
                regs.a = last.prev.regs.a /\ Carry(regs) = Carry(last.prev.regs)
    IN  /\ SteppedAcc("asl") =>
              regs.a = (2 * a) % 256 /\ Carry(regs) = a \div 128
        /\ SteppedAcc("lsr") =>
              regs.a = a \div 2 /\ Carry(regs) = a % 2
        /\ SteppedAcc("rol") =>
              regs.a = ((2 * a) % 256) + c /\ Carry(regs) = a \div 128
        /\ SteppedAcc("ror") =>
              regs.a = (a \div 2) + 128 * c /\ Carry(regs) = a % 2
        /\ After("rol", "ror")
        /\ After("ror", "rol")

\* C18 witness: ROL then ROR of A = 0x81 with Carry set; the ROL left
\* 0x03, the ROR gave back 0x81 and Carry.
C18_Witness ==
    /\ SteppedAcc("ror") /\ last.prev.op = "step"
    /\ Decode(last.prev.val) = [op |-> "rol", am |-> "Accumulator"]
    /\ last.prev.regs.a = \h80 /\ Carry(last.prev.regs) = 1
    /\ last.pre_regs.a = \h01 /\ Carry(last.pre_regs) = 1
    /\ regs.a = \h80 /\ Carry(regs) = 1

\* C19: a completed instruction that is no branch and no JMP leaves PC at
\* the address of its opcode plus 1 plus the operand width of its mode
\* (a 16-bit value).
C19_PcAdvance ==
    (last.op = "step" /\ halt = "none"
        /\ Decode(last.val).op \notin BranchOps \cup {"jmp"}) =>
        regs.pc = (last.addr + 1 + OperandWidth(Decode(last.val).am)) % 65536

\* C19 witness: a rotate of an absolute,X operand, which loads and stores
\* through the operand, moved PC by 3.
C19_Witness ==
    /\ Stepped({"ror"}) /\ Decode(last.val).am = "AbsoluteXWB"
    /\ Len(last.acc) = 2
    /\ regs.pc = last.addr + 3

\* The register an opcode of the store/load pairs stores or loads.
PairRegister(r, opcode) ==
    CASE opcode \in {\h85, \h95, \h8D, \h9D, \h99, \hA5, \hB5, \hAD, \hBD, \hB9} -> r.a
      [] opcode \in {\h86, \h96, \h8E, \hA6, \hB6, \hAE} -> r.x
      [] opcode \in {\h84, \h94, \h8C, \hA4, \hB4, \hAC} -> r.y

\* C20 (as claimed): after STA/STX/STY to an address e of RAM, loadb(e) is
\* the register, every other RAM cell and A, X, Y, S, P are as before; and
\* the load of the pair, with the same operand, right after it leaves the
\* stored value in the register.
C20_StoreLoadRoundTrip ==
    /\ (Stepped({"sta", "stx", "sty"}) /\ Len(last.acc) = 1
          /\ last.acc[1].addr < \h2000) =>
          /\ Memory_loadb(memory, last.acc[1].addr)
                = Ok(PairRegister(last.pre_regs, last.val))
          /\ \A i \in (DOMAIN memory.ram \cup DOMAIN last.pre_memory.ram)
                        \ {last.acc[1].addr % RAM_SIZE} :
                 RamCell(memory.ram, i) = RamCell(last.pre_memory.ram, i)
          /\ regs = [last.pre_regs EXCEPT !.pc = regs.pc]
    /\ (last.op = "step" /\ halt = "none" /\ last.prev.op = "step"
          /\ <<last.prev.val, last.val>> \in StoreLoadPairs
          /\ \A k \in 1..OperandWidth(Decode(last.val).am) :
                 OperandByte(k)
                    = Memory_loadb(last.pre_memory, last.prev.addr + k).val) =>
          PairRegister(regs, last.val) = PairRegister(last.prev.regs, last.prev.val)

\* C21: a completed step on JMP is a step on opcode 0x4C; it leaves in PC
\* the word whose low byte follows the opcode and whose high byte follows
\* that, and every other register, the flags and memory as before; a step
\* on opcode 0x6C halts as an illegal opcode.
C21_JmpAbsolute ==
    /\ Stepped({"jmp"}) =>
          /\ last.val = \h4C
          /\ regs = [last.pre_regs EXCEPT !.pc = OperandWord]
          /\ memory = last.pre_memory
    /\ (last.op = "step" /\ last.val = \h6C) => halt = "IllegalOpcode"

\* C21 witness: JMP with the operand bytes 10 40 went to 0x4010.
C21_Witness ==
    /\ Stepped({"jmp"})
    /\ OperandByte(1) = \h10 /\ OperandByte(2) = \h40
    /\ regs.pc = \h4010

\* C21 witness of the other half: a step on 0x6C halted.
C21_WitnessIndirect ==
    last.op = "step" /\ last.val = \h6C /\ halt = "IllegalOpcode"

\* The header bytes of the file.
FileHeader == [i \in 1..HEADER_SIZE |-> FileAt(file, i - 1)]

\* The file offset the claim gives the PRG: 16, and 512 more when bit 2 of
\* header byte 6 is set.
PrgStart ==
    HEADER_SIZE + (IF (FileHeader[7] \div 4) % 2 = 1 THEN TRAINER_SIZE ELSE 0)

\* The bytes of buffer b are the bytes of the file from offset start on.
ReadFrom(b, start) ==
    /\ b.len > 0 => b.fill = file.fill
    /\ \A o \in DOMAIN file.cells \cup {i + start : i \in DOMAIN b.cells} :
           (o >= start /\ o < start + b.len) =>
               (IF o - start \in DOMAIN b.cells THEN b.cells[o - start] ELSE b.fill)
                   = FileAt(file, o)

\* C22 (as claimed): CPU::new of a file with the magic and a whole header
\* fails when the file has fewer bytes than header, trainer, PRG and CHR
\* take together; when it loads, prg has size_prg * 16384 bytes, read from
\* offset 16 + 512 with the trainer bit and from offset 16 without, and chr
\* has size_chr * 8192 bytes, read from where the PRG ends.
C22_TrainerHandling ==
    (last.op = "new" /\ MagicBytes /\ file.len >= HEADER_SIZE) =>
        /\ file.len < Declared(FileHeader) => halt # "none"
        /\ halt = "none" =>
              /\ memory.rom.prg.len = FileHeader[5] * PRG_BANK_SIZE
              /\ memory.rom.chr.len = FileHeader[6] * CHR_BANK_SIZE
              /\ ReadFrom(memory.rom.prg, PrgStart)
              /\ ReadFrom(memory.rom.chr, PrgStart + memory.rom.prg.len)

\* C23: in every state the stack pointer is 0 and the flag byte has no bit
\* but Carry and Zero; a completed BMI or BVS left PC after its operand,
\* and a completed BPL or BVC added its offset byte to that.
C23_FlagsAndStackPointer ==
    /\ regs.s = 0
    /\ BitAnd(regs.flags, \hFC) = 0
    /\ Stepped({"bmi", "bvs"}) => regs.pc = last.addr + 2
    /\ Stepped({"bpl", "bvc"}) => regs.pc = last.addr + 2 + OperandByte(1)

\* C23 witness: BPL with Carry set before it and offset 0x80 was taken.
C23_Witness ==
    /\ Stepped({"bpl"})
    /\ Carry(last.pre_regs) = 1 /\ regs.flags = last.pre_regs.flags
    /\ OperandByte(1) = \h80
    /\ regs.pc = last.addr + 2 + \h80

\* C23 witness: BVS with Zero set and offset 0x80 was not taken.
C23_WitnessNotTaken ==
    /\ Stepped({"bvs"})
    /\ Zero(last.pre_regs) = 1
    /\ OperandByte(1) = \h80
    /\ regs.pc = last.addr + 2

\* C23 witness: Carry and Zero are both set.
C23_WitnessBothFlags == last.op = "step" /\ regs.flags = 3 /\ regs.s = 0

\* The operations of the dispatch table that store through their mode.
StoringOps == {"sta", "stx", "sty", "asl", "lsr", "rol", "ror"}

\* No arm of the dispatch table gives an operation that stores the
\* Immediate mode.
NoImmediateStoreArm ==
    \A opcode \in 0..255 :
        Decode(opcode).op \in StoringOps => Decode(opcode).am # "Immediate"

\* C24: no opcode pairs a storing operation with the Immediate mode, no
\* step ends in the panic of the Immediate store, and a step whose opcode
\* was fetched halts as an illegal opcode exactly when the opcode has no
\* arm; any other halt of a step is an arithmetic overflow or a bus access
\* outside the PRG.
C24_NoImmediateStore ==
    /\ NoImmediateStoreArm
    /\ halt # "ImmediateStore"
    /\ (last.op = "step" /\ last.res.halt = "none") =>
          /\ (halt = "IllegalOpcode") = (Decode(last.val).op = "illegal")
          /\ halt \in {"none", "IllegalOpcode", "Overflow", "IndexOutOfBounds"}

\* C24 witness: ASL of the accumulator (opcode 0x0A) stored its result.
C24_Witness ==
    /\ Stepped({"asl"}) /\ last.val = \h0A
    /\ regs.a = (last.pre_regs.a * 2) % 256 /\ regs.a # last.pre_regs.a

\* C24 witness: STA stored to the bus.
C24_WitnessStore ==
    /\ Stepped({"sta"})
    /\ Len(last.acc) = 1 /\ last.acc[1].kind = "store"

\* C24 witness: a step on an opcode with an arm halted.
C24_WitnessOtherHalt ==
    /\ last.op = "step" /\ last.res.halt = "none"
    /\ Decode(last.val).op # "illegal"
    /\ halt \in {"Overflow", "IndexOutOfBounds"}

\* C25 (as claimed): after STX with opcode 0x96 and operand b and then LDX
\* with opcode 0xB6 and the same operand b, the cell b + Y holds the X of
\* before the STX, the LDX read that cell, and X is the X of before the
\* STX.
C25_StxLdxZeroPageIndexed ==
    (/\ last.op = "step" /\ halt = "none" /\ last.val = \hB6
     /\ last.prev.op = "step" /\ last.prev.val = \h96
     /\ OperandByte(1) = Memory_loadb(last.pre_memory, last.prev.addr + 1).val
     /\ OperandByte(1) + last.pre_regs.y < \h2000) =>
        /\ last.acc[1].addr = OperandByte(1) + last.pre_regs.y
        /\ Memory_loadb(last.pre_memory, OperandByte(1) + last.pre_regs.y)
              = Ok(last.prev.regs.x)
        /\ regs.x = last.prev.regs.x

====
